---- MODULE Spec2Model ----
(***************************************************************************)
(* The metric aggregation engine of unitxt (src/src/unitxt/metrics.py):    *)
(* the three metric kinds (GlobalMetric, BulkInstanceMetric,               *)
(* InstanceMetric), the grouping engine (score_groups_globally,            *)
(* average_groups_global_scores) and the keys written by the confidence    *)
(* interval engine.                                                        *)
(*                                                                         *)
(* A Python float is modelled as an exact rational or NaN, a dict as a     *)
(* function from its keys, a dict object that is shared by reference as an *)
(* index into `heap`, and a raised exception as a record naming its type.  *)
(***************************************************************************)
EXTENDS Integers, Sequences, FiniteSets, TLC

VARIABLES
    stream,    \* the instances handed to the operation, in order
    heap,      \* the dict objects that score["global"] entries refer to
    op,        \* the operation that has run ("" before any)
    cfg,       \* the metric (kind and configuration) it ran on
    exc,       \* the exception it raised (type "none" if it returned)
    ret,       \* what it returned
    yielded    \* the indices of the instances a process generator yielded

vars == <<stream, heap, op, cfg, exc, ret, yielded>>

\* the longest stream / instance list explored
MaxLen == 2

(***************************************************************************)
(* Values: floats (exact rationals), NaN, None, strings, bootstrap bounds. *)
(***************************************************************************)
Num(n, d) == [t |-> "num", n |-> n, d |-> d, s |-> ""]
\* np.nan, the one object that `x is np.nan` recognises
NaN == [t |-> "nan", n |-> 0, d |-> 1, s |-> ""]
\* a NaN that a computation returned: a float object of its own
FreshNaN == [t |-> "nan", n |-> 1, d |-> 1, s |-> ""]
None == [t |-> "none", n |-> 0, d |-> 1, s |-> ""]
Str(x) == [t |-> "str", n |-> 0, d |-> 1, s |-> x]
\* a bound returned by scipy's bootstrap for score `name`; side 0 is low, 1 high
CiBound(name, side) == [t |-> "ci", n |-> side, d |-> 1, s |-> name]

Abs(x) == IF x < 0 THEN -x ELSE x

RECURSIVE GCD(_, _)
GCD(a, b) == IF b = 0 THEN a ELSE GCD(b, a % b)

\* the rational n/d (d > 0) in lowest terms
Rat(n, d) == LET g == GCD(Abs(n), d) IN Num(n \div g, d \div g)

RAdd(a, b) == Rat(a.n * b.d + b.n * a.d, a.d * b.d)
RSub(a, b) == Rat(a.n * b.d - b.n * a.d, a.d * b.d)
RDiv(a, b) == IF b.n > 0 THEN Rat(a.n * b.d, a.d * b.n)
                         ELSE Rat(-(a.n * b.d), a.d * (-b.n))

RECURSIVE RSum(_)
RSum(xs) == IF xs = <<>> THEN Num(0, 1) ELSE RAdd(Head(xs), RSum(Tail(xs)))

IsNan(v) == v.t = "nan"

\* statistics.mean of a non-empty list of floats; a NaN element makes it NaN
mean(xs) ==
    IF \E i \in 1..Len(xs) : IsNan(xs[i]) THEN FreshNaN
    ELSE LET total == RSum(xs) IN Rat(total.n, total.d * Len(xs))

NonNan(xs) == SelectSeq(xs, LAMBDA v : ~IsNan(v))

\* a mean that counts a NaN entry as 0
nan_mean_as_zero(xs) ==
    IF xs = <<>> THEN FreshNaN
    ELSE mean([i \in 1..Len(xs) |-> IF IsNan(xs[i]) THEN Num(0, 1) ELSE xs[i]])

\* np.nanmean: the mean of the non-NaN entries, NaN when there is none
nan_mean(xs) == IF NonNan(xs) = <<>> THEN FreshNaN ELSE mean(NonNan(xs))

(***************************************************************************)
(* Dicts.                                                                  *)
(***************************************************************************)
EmptyDict == <<>>

\* d.update(new)
Update(d, new) ==
    [k \in (DOMAIN d) \cup (DOMAIN new) |-> IF k \in DOMAIN new THEN new[k] ELSE d[k]]

\* Body at the value of v, with v worked out once
Let(v, Body(_)) == CHOOSE r \in {Body(x) : x \in {v}} : TRUE

Range(s) == {s[i] : i \in 1..Len(s)}

Indices(n) == [i \in 1..n |-> i]

(***************************************************************************)
(* Exceptions.                                                             *)
(***************************************************************************)
NoExc == [type |-> "none", reports |-> ""]
Exc(type, reports) == [type |-> type, reports |-> reports]
Raised(e) == e.type # "none"

(***************************************************************************)
(* Instances and metrics.                                                  *)
(***************************************************************************)
Missing == "<missing>"
GroupByField == "task_data/group_id"
SubgroupColumn == "task_data/variant_type"

Reference == "A"
Predictions == {"A", "B"}
GroupIds == {"g1", "g2"}
VariantTypes == {"original", "paraphrase", "other"}

Kinds == {"GlobalMetric", "BulkInstanceMetric", "InstanceMetric"}

main_score(kind) ==
    CASE kind = "InstanceMetric" -> "accuracy"
      [] kind = "BulkInstanceMetric" -> "score"
      [] OTHER -> "corpus_score"

subgroup_types == {"original"}
control_subgroup_types == {"original"}
comparison_subgroup_types == {"paraphrase"}

NoScoreName == "<None>"

\* dict_get(instance, field) finds the field
HasField(instance, field) ==
    IF field = GroupByField THEN instance.group_id # Missing
    ELSE instance.variant_type # Missing

dict_get(instance, field) ==
    IF field = GroupByField THEN instance.group_id ELSE instance.variant_type

\* Accuracy.compute
AccuracyCompute(references, prediction) ==
    LET v == IF prediction \in references THEN Num(1, 1) ELSE Num(0, 1) IN
    [k \in {"accuracy", "score", "score_name"} |->
        IF k = "score_name" THEN Str("accuracy") ELSE v]

(***************************************************************************)
(* The abstract compute of GlobalMetric and BulkInstanceMetric.  The       *)
(* concrete metrics wrap third-party scorers; the stand-in used here is    *)
(* the fraction of predictions found among the references, and a global    *)
(* metric may need min_instances predictions to be computable at all (it   *)
(* raises on fewer).                                                       *)
(***************************************************************************)
Correct(instance) == instance.prediction = Reference

NumCorrect(group) == Cardinality({j \in 1..Len(group) : Correct(group[j])})

\* GlobalMetric.compute on the references and predictions of `group`
compute(c, group) ==
    IF Len(group) < c.min_instances
    THEN [exc |-> Exc("ComputeError", "compute"), d |-> EmptyDict]
    ELSE [exc |-> NoExc,
          d |-> [k \in {main_score("GlobalMetric")} |-> Rat(NumCorrect(group), Len(group))]]

\* GlobalMetric._compute: compute, then the score and score_name entries
compute_with_main(c, group) ==
    LET r == compute(c, group) IN
    IF Raised(r.exc) THEN r
    ELSE [exc |-> NoExc,
          d |-> Update(r.d, [k \in {"score", "score_name"} |->
                   IF k = "score" THEN r.d[main_score("GlobalMetric")]
                   ELSE Str(main_score("GlobalMetric"))])]

\* BulkInstanceMetric.compute: one score dict per instance
bulk_compute(instances) ==
    [i \in 1..Len(instances) |->
        [k \in {"score"} |-> IF Correct(instances[i]) THEN Num(1, 1) ELSE Num(0, 1)]]

(***************************************************************************)
(* score_groups_globally.  A group holds the indices of its instances: a   *)
(* plain list, or the control and comparison lists.                        *)
(***************************************************************************)
ListGroup(members) ==
    [islist |-> TRUE, list |-> members, control |-> <<>>, comparison |-> <<>>]
SplitGroup(control, comparison) ==
    [islist |-> FALSE, list |-> <<>>, control |-> control, comparison |-> comparison]

DictScore(d) == [isdict |-> TRUE, d |-> d, v |-> NaN]
FloatScore(v) == [isdict |-> FALSE, d |-> EmptyDict, v |-> v]

NoGroups(e) == [exc |-> e, order |-> <<>>, groups |-> <<>>]

At(instances, idxs) == [j \in 1..Len(idxs) |-> instances[idxs[j]]]

\* the first instance that lacks `field`, 0 if every instance has it
FirstWithout(instances, field) ==
    IF \E i \in 1..Len(instances) : ~HasField(instances[i], field)
    THEN CHOOSE i \in 1..Len(instances) :
            /\ ~HasField(instances[i], field)
            /\ \A j \in 1..(i - 1) : HasField(instances[j], field)
    ELSE 0

\* the keys of the defaultdict after the first n instances, in insertion order
RECURSIVE group_names(_, _)
group_names(instances, n) ==
    IF n = 0 THEN <<>>
    ELSE LET prev == group_names(instances, n - 1)
             g == dict_get(instances[n], GroupByField) IN
         IF g \in Range(prev) THEN prev ELSE Append(prev, g)

members_of(instances, g) ==
    SelectSeq(Indices(Len(instances)),
              LAMBDA i : dict_get(instances[i], GroupByField) = g)

\* the message of the ValueError raised for instance m reads the local group_name,
\* which holds the group of the instance before it and is unbound for the first
missing_group_error(instances, m) ==
    IF m = 1 THEN Exc("UnboundLocalError", "group_name")
    ELSE Exc("ValueError", dict_get(instances[m - 1], GroupByField))

\* the partition into groups
grouped_instances(c, instances) ==
    IF ~c.grouping
    THEN [exc |-> NoExc, order |-> <<"all">>,
          groups |-> [g \in {"all"} |-> ListGroup(Indices(Len(instances)))]]
    ELSE LET m == FirstWithout(instances, GroupByField) IN
         IF m > 0 THEN NoGroups(missing_group_error(instances, m))
         ELSE LET order == group_names(instances, Len(instances)) IN
              [exc |-> NoExc, order |-> order,
               groups |-> [g \in Range(order) |-> ListGroup(members_of(instances, g))]]

LacksSubgroup(instances, part) ==
    \E g \in Range(part.order) :
        \E j \in 1..Len(part.groups[g].list) :
            ~HasField(instances[part.groups[g].list[j]], SubgroupColumn)

\* the filter with its membership test inverted
keep_subgroup_inverted(instances, list) ==
    SelectSeq(list, LAMBDA i : dict_get(instances[i], SubgroupColumn) \notin subgroup_types)

keep_subgroup(instances, list) ==
    SelectSeq(list, LAMBDA i : dict_get(instances[i], SubgroupColumn) \in subgroup_types)

\* subgroup filtering of every group
filter_subgroups(c, instances, part) ==
    IF ~c.subgroup_filtering THEN part
    ELSE IF LacksSubgroup(instances, part)
    THEN NoGroups(Exc("ValueError", SubgroupColumn))
    ELSE [part EXCEPT !.groups =
            [g \in DOMAIN part.groups |->
                ListGroup(keep_subgroup(instances, part.groups[g].list))]]

control_of(instances, list) ==
    SelectSeq(list, LAMBDA i :
        dict_get(instances[i], SubgroupColumn) \in control_subgroup_types)

\* the split with a plain else in place of the elif: what is not control is comparison
comparison_of_else(instances, list) ==
    SelectSeq(list, LAMBDA i :
        dict_get(instances[i], SubgroupColumn) \notin control_subgroup_types)

comparison_of(instances, list) ==
    SelectSeq(list, LAMBDA i :
        /\ dict_get(instances[i], SubgroupColumn) \notin control_subgroup_types
        /\ dict_get(instances[i], SubgroupColumn) \in comparison_subgroup_types)

\* the split of every group into control and comparison
split_control_comparison(c, instances, part) ==
    IF ~c.control_comparison THEN part
    ELSE IF LacksSubgroup(instances, part)
    THEN NoGroups(Exc("ValueError", SubgroupColumn))
    ELSE [part EXCEPT !.groups =
            [g \in DOMAIN part.groups |->
                SplitGroup(control_of(instances, part.groups[g].list),
                           comparison_of(instances, part.groups[g].list))]]

(***************************************************************************)
(* The score of each group.                                                *)
(***************************************************************************)
\* MetricWithConfidenceInterval.average_item_scores
average_item_scores(group, score_name) ==
    nan_mean([j \in 1..Len(group) |-> group[j].score.instance[score_name]])

RMax(a, b) == IF a.n * b.d >= b.n * a.d THEN a ELSE b

RECURSIVE RMaxOf(_)
RMaxOf(xs) == IF Len(xs) = 1 THEN xs[1] ELSE RMax(Head(xs), RMaxOf(Tail(xs)))

\* np.nanmax of a non-empty list: the largest non-NaN entry, NaN when there is
\* none (on an empty list np.nanmax raises ValueError)
nan_max(xs) == IF NonNan(xs) = <<>> THEN FreshNaN ELSE RMaxOf(NonNan(xs))

\* MetricWithConfidenceInterval.max_item_scores
max_item_scores(group, score_name) ==
    nan_max([j \in 1..Len(group) |-> group[j].score.instance[score_name]])

\* self.aggregating["aggregating_function"]: average_item_scores as
\* InstanceMetric.prepare sets it, or max_item_scores (MaxAccuracy)
aggregating_function(c, group, score_name) ==
    IF c.aggregating = "max" THEN max_item_scores(group, score_name)
    ELSE average_item_scores(group, score_name)

\* the aggregating function raises on this group
AggregatingRaises(c, group) == c.aggregating = "max" /\ group = <<>>

\* the drop rate without the test of the comparison mean: NaN whenever the
\* control mean is 0
performance_drop_rate_undefined_at_zero(control_subgroup, comparison_subgroup) ==
    LET no_nan_control_subgroup == NonNan(control_subgroup)
        no_nan_comparison_subgroup == NonNan(comparison_subgroup) IN
    IF no_nan_control_subgroup = <<>> \/ no_nan_comparison_subgroup = <<>> THEN NaN
    ELSE LET control_mean == mean(no_nan_control_subgroup)
             comparison_mean == mean(no_nan_comparison_subgroup) IN
         IF control_mean.n = 0 THEN NaN
         ELSE RSub(Num(1, 1), RDiv(comparison_mean, control_mean))

performance_drop_rate(control_subgroup, comparison_subgroup) ==
    LET no_nan_control_subgroup == NonNan(control_subgroup)
        no_nan_comparison_subgroup == NonNan(comparison_subgroup) IN
    IF no_nan_control_subgroup = <<>> \/ no_nan_comparison_subgroup = <<>> THEN NaN
    ELSE LET control_mean == mean(no_nan_control_subgroup)
             comparison_mean == mean(no_nan_comparison_subgroup) IN
         IF control_mean.n = 0
         THEN (IF comparison_mean.n = 0 THEN Num(0, 1) ELSE NaN)
         ELSE RSub(Num(1, 1), RDiv(comparison_mean, control_mean))

\* self.control_comparison["control_comparison_score_calculator"]
control_comparison_score_calculator(control_scores, comparison_scores) ==
    performance_drop_rate(control_scores, comparison_scores)

scores_of(group, score_name) ==
    [j \in 1..Len(group) |-> group[j].score.instance[score_name]]

\* instance["score"]["instance"][score_name] raises KeyError for some instance
LacksScore(group, score_names) ==
    \E j \in 1..Len(group) : \E k \in 1..Len(score_names) :
        \/ ~group[j].score.has
        \/ score_names[k] \notin DOMAIN group[j].score.instance

NoEntry(e) == [exc |-> e, has |-> FALSE, score |-> FloatScore(NaN), applied |-> "nothing"]

\* the InstanceMetric branch, for one group
instance_group_score(c, instances, grp, score_names) ==
    IF LacksScore(At(instances, grp.list \o grp.control \o grp.comparison), score_names)
    THEN NoEntry(Exc("KeyError", "score"))
    ELSE IF grp.islist /\ score_names # <<>> /\ AggregatingRaises(c, grp.list)
    THEN NoEntry(Exc("ValueError", "zero-size array to reduction operation"))
    ELSE [exc |-> NoExc, has |-> TRUE,
          score |-> DictScore([n \in Range(score_names) |->
              IF grp.islist
              THEN aggregating_function(c, At(instances, grp.list), n)
              ELSE control_comparison_score_calculator(
                       scores_of(At(instances, grp.control), n),
                       scores_of(At(instances, grp.comparison), n))]),
          applied |-> IF score_names = <<>> THEN "nothing"
                      ELSE IF grp.islist THEN "aggregating_function"
                      ELSE "control_comparison_score_calculator"]

\* the GlobalMetric branch, for one group
global_group_score(c, instances, grp) ==
    IF ~grp.islist THEN NoEntry(NoExc)
    ELSE IF Len(grp.list) = 0
    THEN [exc |-> NoExc, has |-> TRUE, score |-> FloatScore(NaN), applied |-> "nothing"]
    ELSE LET r == compute_with_main(c, At(instances, grp.list)) IN
         [exc |-> r.exc, has |-> ~Raised(r.exc), score |-> DictScore(r.d),
          applied |-> "compute"]

\* the BulkInstanceMetric branch, for one group
bulk_group_score(grp) ==
    NoEntry(Exc("ValueError", "nowhere in BulkInstanceMetric is this method invoked"))

group_score(kind, c, instances, grp, score_names) ==
    CASE kind = "InstanceMetric" -> instance_group_score(c, instances, grp, score_names)
      [] kind = "GlobalMetric" -> global_group_score(c, instances, grp)
      [] OTHER -> bulk_group_score(grp)

Failed(e) == [exc |-> e, order |-> <<>>, scores |-> <<>>, fed |-> <<>>, applied |-> <<>>]

\* the loop over the groups that fills groups_global_scores
scores_of_groups(part, each) ==
    LET failing == SelectSeq(part.order, LAMBDA g : Raised(each[g].exc))
        keys == SelectSeq(part.order, LAMBDA g : each[g].has) IN
    IF failing # <<>> THEN Failed(each[failing[1]].exc)
    ELSE [exc |-> NoExc, order |-> keys,
          scores |-> [g \in Range(keys) |-> each[g].score],
          fed |-> part.groups,
          applied |-> [g \in Range(part.order) |-> each[g].applied]]

score_groups(kind, c, instances, part, score_names) ==
    Let([g \in Range(part.order) |->
            group_score(kind, c, instances, part.groups[g], score_names)],
        LAMBDA each : scores_of_groups(part, each))

score_groups_globally(kind, c, instances, score_names) ==
    LET grouped == grouped_instances(c, instances) IN
    IF Raised(grouped.exc) THEN Failed(grouped.exc)
    ELSE LET filtered == filter_subgroups(c, instances, grouped) IN
         IF Raised(filtered.exc) THEN Failed(filtered.exc)
         ELSE LET split == split_control_comparison(c, instances, filtered) IN
              IF Raised(split.exc) THEN Failed(split.exc)
              ELSE score_groups(kind, c, instances, split, score_names)

(***************************************************************************)
(* average_groups_global_scores.                                           *)
(***************************************************************************)
Returned(val) == [exc |-> NoExc, val |-> val]
Threw(e) == [exc |-> e, val |-> FloatScore(NaN)]

\* the values of field k in the dict-valued groups, in the order of the groups
field_values(r, k) ==
    LET having == SelectSeq(r.order, LAMBDA g : r.scores[g].isdict /\ k \in DOMAIN r.scores[g].d) IN
    [j \in 1..Len(having) |-> r.scores[having[j]].d[k]]

\* result[k].append(v) on a result[k] that an earlier group set to a string
AppendsToString(vs) ==
    \E i \in 1..Len(vs) : \E j \in (i + 1)..Len(vs) : vs[i].t = "str" /\ vs[j].t # "str"

\* the merge with a mean that does not skip NaN
merge_group_scores_with_mean(r) ==
    LET dicts == SelectSeq(r.order, LAMBDA g : r.scores[g].isdict)
        keys == UNION {DOMAIN r.scores[dicts[j]].d : j \in 1..Len(dicts)} IN
    Returned(DictScore([k \in keys |->
        LET vs == field_values(r, k) IN
        IF vs[Len(vs)].t = "str" THEN vs[Len(vs)]
        ELSE mean(SelectSeq(vs, LAMBDA v : v.t # "str"))]))

\* the merge of the groups' dicts, field by field (score_name is None)
merge_group_scores(r) ==
    LET dicts == SelectSeq(r.order, LAMBDA g : r.scores[g].isdict)
        keys == UNION {DOMAIN r.scores[dicts[j]].d : j \in 1..Len(dicts)} IN
    IF \E k \in keys : AppendsToString(field_values(r, k))
    THEN Threw(Exc("AttributeError", "append"))
    ELSE Returned(DictScore([k \in keys |->
            LET vs == field_values(r, k) IN
            IF vs[Len(vs)].t = "str" THEN vs[Len(vs)]
            ELSE nan_mean(SelectSeq(vs, LAMBDA v : v.t # "str"))]))

average_of_groups(groups_global_scores, score_name) ==
    LET order == groups_global_scores.order IN
    IF Raised(groups_global_scores.exc) THEN Threw(groups_global_scores.exc)
    ELSE IF Len(order) = 0
    THEN Threw(Exc("AssertionError", "Where have all the groups gone?"))
    ELSE IF Len(order) = 1 THEN Returned(groups_global_scores.scores[order[1]])
    ELSE IF score_name # NoScoreName
    THEN (IF \E j \in 1..Len(order) : ~groups_global_scores.scores[order[j]].isdict
          THEN Threw(Exc("TypeError", "subscript"))
          ELSE Returned(FloatScore(nan_mean(
                   [j \in 1..Len(order) |->
                       groups_global_scores.scores[order[j]].d[score_name]]))))
    ELSE merge_group_scores(groups_global_scores)

average_groups_global_scores(kind, c, instances, score_name) ==
    Let(score_groups_globally(kind, c, instances,
            IF score_name # NoScoreName THEN <<score_name>> ELSE <<>>),
        LAMBDA groups_global_scores : average_of_groups(groups_global_scores, score_name))

(***************************************************************************)
(* Metric configurations.                                                  *)
(***************************************************************************)
\* n_resamples = None
NoneN == 0

DefaultCfg ==
    [kind |-> "InstanceMetric", grouping |-> FALSE,
     ci_samples_from_groups_scores |-> FALSE, subgroup_filtering |-> FALSE,
     control_comparison |-> FALSE, process_single_instances |-> TRUE,
     min_instances |-> 1, n_resamples |-> NoneN, ci_scores |-> FALSE,
     aggregating |-> "mean"]

\* the score_names a metric of this kind passes to score_groups_globally
\* (None, which the GlobalMetric and BulkInstanceMetric branches never read)
score_names_of(kind) ==
    IF kind = "InstanceMetric" THEN <<main_score(kind)>> ELSE <<>>

score_name_of(kind) ==
    IF kind = "InstanceMetric" THEN main_score(kind) ELSE NoScoreName

(***************************************************************************)
(* Direct calls of the grouping engine on instances that already carry     *)
(* their instance scores.                                                  *)
(***************************************************************************)
ScoredInstance(p, g, v) ==
    [prediction |-> p, group_id |-> g, variant_type |-> v,
     score |-> [has |-> TRUE, global |-> 1,
                instance |-> AccuracyCompute({Reference}, p)]]

ScoredInstances ==
    {ScoredInstance(p, g, v) : p \in Predictions, g \in GroupIds \cup {Missing},
                               v \in VariantTypes \cup {Missing}}

GroupsConfigs ==
    {c \in [kind : Kinds, grouping : BOOLEAN, ci_samples_from_groups_scores : {FALSE},
            subgroup_filtering : BOOLEAN, control_comparison : BOOLEAN,
            process_single_instances : {TRUE}, min_instances : {1, 2},
            n_resamples : {NoneN}, ci_scores : {FALSE}, aggregating : {"mean"}] :
        c.kind # "GlobalMetric" => c.min_instances = 1}

InitGroups ==
    /\ stream \in UNION {[1..n -> ScoredInstances] : n \in 0..MaxLen}
    /\ heap = <<EmptyDict>>
    /\ op = ""
    /\ cfg = DefaultCfg
    /\ exc = NoExc
    /\ ret = <<>>
    /\ yielded = <<>>

CallScoreGroupsGlobally ==
    /\ op = ""
    /\ \E c \in GroupsConfigs :
        LET r == score_groups_globally(c.kind, c, stream, score_names_of(c.kind)) IN
        /\ op' = "score_groups_globally"
        /\ cfg' = c
        /\ exc' = r.exc
        /\ ret' = r
    /\ UNCHANGED <<stream, heap, yielded>>

CallAverageGroupsGlobalScores ==
    /\ op = ""
    /\ \E c \in GroupsConfigs :
        LET r == average_groups_global_scores(c.kind, c, stream, score_name_of(c.kind)) IN
        /\ op' = "average_groups_global_scores"
        /\ cfg' = c
        /\ exc' = r.exc
        /\ ret' = r.val
    /\ UNCHANGED <<stream, heap, yielded>>

NextGroups == CallScoreGroupsGlobally \/ CallAverageGroupsGlobalScores

SpecGroups == InitGroups /\ [][NextGroups]_vars

(***************************************************************************)
(* The confidence interval engine: which keys it writes.  The bounds that  *)
(* scipy's bootstrap returns are opaque values, CiBound.                   *)
(***************************************************************************)
_can_compute_confidence_intervals(c, num_predictions) ==
    c.n_resamples # NoneN /\ c.n_resamples > 1 /\ num_predictions > 1

\* items are the score["instance"] dicts of the instances
_all_instance_scores_equal(items, score_name) ==
    LET instance_scores == [j \in 1..Len(items) |-> items[j][score_name]]
        non_nan_instance_scores == SelectSeq(instance_scores, LAMBDA v : v # NaN)
        \* a set of floats: equal numbers fall together, every NaN object stays apart
        num_unique_scores ==
            Cardinality({v \in Range(non_nan_instance_scores) : ~IsNan(v)})
            + Cardinality({j \in 1..Len(non_nan_instance_scores) :
                              IsNan(non_nan_instance_scores[j])}) IN
    num_unique_scores = 1

DictOf(entries) == [k \in {e[1] : e \in entries} |-> (CHOOSE e \in entries : e[1] = k)[2]]

ci_entries(full_score_name, is_main) ==
    {<<full_score_name \o "_ci_low", CiBound(full_score_name, 0)>>,
     <<full_score_name \o "_ci_high", CiBound(full_score_name, 1)>>}
    \cup (IF is_main
          THEN {<<"score_ci_low", CiBound(full_score_name, 0)>>,
                <<"score_ci_high", CiBound(full_score_name, 1)>>}
          ELSE {})

\* the score names the loop of score_based_confidence_interval bootstraps
bootstrapped_names(c, items, score_names) ==
    IF ~_can_compute_confidence_intervals(c, Len(items)) THEN {}
    ELSE {n \in Range(score_names) : ~_all_instance_scores_equal(items, n)}

score_based_confidence_interval(c, main, items, score_names, ci_score_prefix) ==
    DictOf(UNION {ci_entries(ci_score_prefix \o n, n = main) :
                     n \in bootstrapped_names(c, items, score_names)})

compute_global_confidence_intervals(c, num_predictions, score_name) ==
    IF _can_compute_confidence_intervals(c, num_predictions)
    THEN DictOf(ci_entries(score_name, TRUE))
    ELSE EmptyDict

(***************************************************************************)
(* The three process operations.                                           *)
(***************************************************************************)
Unscored == [has |-> FALSE, global |-> 0, instance |-> EmptyDict]

Outcome(instances, hp, e, out) ==
    [stream |-> instances, heap |-> hp, exc |-> e, yielded |-> out]

\* the dict that the local global_score names once instance i has been visited:
\* that of the last instance up to i that came with a score, else the new one
global_score_at(instances, i, fresh) ==
    LET carrying == {j \in 1..i : instances[j].score.has} IN
    IF carrying = {} THEN fresh
    ELSE instances[CHOOSE j \in carrying : \A k \in carrying : k <= j].score.global

\* the same with score["instance"] assigned and not updated
with_instance_score_assigned(instances, i, fresh, instance_score) ==
    [instances[i] EXCEPT !.score =
        [has |-> TRUE,
         global |-> IF @.has THEN @.global ELSE global_score_at(instances, i, fresh),
         instance |-> instance_score]]

\* instance i after "if 'score' not in instance ... else ..." and the update of
\* its score["instance"]
with_instance_score(instances, i, fresh, instance_score) ==
    [instances[i] EXCEPT !.score =
        [has |-> TRUE,
         global |-> IF @.has THEN @.global ELSE global_score_at(instances, i, fresh),
         instance |-> Update(@.instance, instance_score)]]

no_score(kind, no_score_value) ==
    [k \in {"score", "score_name", main_score(kind)} |->
        IF k = "score_name" THEN Str(main_score(kind)) ELSE no_score_value]

\* the preview score with the except clause leaving no_score_value as it was
single_instance_score_keeps_nan(c, instance) ==
    IF c.process_single_instances
    THEN LET r == compute_with_main(c, <<instance>>) IN
         IF Raised(r.exc) THEN no_score("GlobalMetric", NaN) ELSE r.d
    ELSE no_score("GlobalMetric", NaN)

\* the preview score of one instance in GlobalMetric.process
single_instance_score(c, instance) ==
    IF c.process_single_instances
    THEN LET r == compute_with_main(c, <<instance>>) IN
         IF Raised(r.exc) THEN no_score("GlobalMetric", None) ELSE r.d
    ELSE no_score("GlobalMetric", NaN)

\* the confidence interval step of GlobalMetric.process
fixed_groups_confidence_interval(c, groups_global_scores) ==
    LET dicts == SelectSeq(groups_global_scores.order,
                     LAMBDA g : groups_global_scores.scores[g].isdict)
        to_sample_from ==
            [j \in 1..Len(dicts) |-> groups_global_scores.scores[dicts[j]].d] IN
    score_based_confidence_interval(c, main_score("GlobalMetric"), to_sample_from,
        <<main_score("GlobalMetric")>>, "fixed_group_")

global_confidence_interval(c, instances, groups_global_scores, score_name) ==
    IF c.ci_scores /\ c.grouping /\ c.ci_samples_from_groups_scores
    THEN Let(groups_global_scores,
             LAMBDA scores : fixed_groups_confidence_interval(c, scores))
    ELSE compute_global_confidence_intervals(c, Len(instances), score_name)

\* from the call of average_groups_global_scores to the end of process
global_score_of_stream(c, hp1, scored, global_score, result) ==
    IF Raised(result.exc) THEN Outcome(scored, hp1, result.exc, <<>>)
    ELSE IF ~result.val.isdict
    THEN Outcome(scored, hp1, Exc("TypeError", "'float' object is not iterable"), <<>>)
    ELSE LET hp2 == [hp1 EXCEPT ![global_score] = Update(@, result.val.d)] IN
         IF "score_name" \notin DOMAIN hp2[global_score]
         THEN Outcome(scored, hp2, Exc("KeyError", "score_name"), <<>>)
         ELSE LET score_name == hp2[global_score]["score_name"].s
                  confidence_interval ==
                      global_confidence_interval(c, scored,
                          score_groups_globally("GlobalMetric", c, scored, <<>>),
                          score_name) IN
              Outcome(scored,
                      [hp2 EXCEPT ![global_score] = Update(@, confidence_interval)],
                      NoExc, Indices(Len(scored)))

GlobalMetric_process(c, instances, hp) ==
    LET fresh == Len(hp) + 1
        global_score == global_score_at(instances, Len(instances), fresh) IN
    Let([i \in 1..Len(instances) |->
            with_instance_score(instances, i, fresh,
                single_instance_score(c, instances[i]))],
        LAMBDA scored :
            Let(average_groups_global_scores("GlobalMetric", c, scored, NoScoreName),
                LAMBDA result :
                    global_score_of_stream(c, Append(hp, EmptyDict), scored,
                                           global_score, result)))

BulkInstanceMetric_process(c, instances, hp) ==
    IF instances = <<>>
    THEN Outcome(instances, hp, Exc("ValueError", "not enough values to unpack"), <<>>)
    ELSE
    LET fresh == Len(hp) + 1
        hp1 == Append(hp, EmptyDict)
        main == main_score("BulkInstanceMetric")
        instance_scores == bulk_compute(instances)
        scored == [i \in 1..Len(instances) |->
                      with_instance_score(instances, i, fresh,
                          Update(instance_scores[i],
                                 [k \in {"score", "score_name"} |->
                                     IF k = "score" THEN instance_scores[i][main]
                                     ELSE Str(main)]))]
        global_score == global_score_at(instances, Len(instances), fresh)
        \* reduction_map = {"mean": [main_score]}
        reduced == [k \in {main, "score", "score_name"} |->
                       IF k = "score_name" THEN Str(main)
                       ELSE mean([i \in 1..Len(scored) |-> scored[i].score.instance[main]])]
        confidence_interval ==
            score_based_confidence_interval(c, main,
                [i \in 1..Len(scored) |-> scored[i].score.instance], <<main>>, "") IN
    Outcome(scored,
            [hp1 EXCEPT ![global_score] = Update(Update(@, reduced), confidence_interval)],
            NoExc, Indices(Len(scored)))

\* the prefix without the name of the aggregating function
prefix_without_function_name(c) ==
    IF ~c.grouping THEN ""
    ELSE IF c.ci_samples_from_groups_scores THEN "fixed_group_" ELSE "group_"

\* InstanceMetric.prepare: the prefix of the global score names
prefix(c) ==
    IF ~c.grouping THEN ""
    ELSE (IF c.ci_samples_from_groups_scores THEN "fixed_group_" ELSE "group_")
         \o c.aggregating \o "_"

\* the bootstrap's aggregation_func is average_groups_global_scores, which hands
\* back the one group's dict and not a float when a resample falls into a single
\* group: numpy then raises a TypeError
resample_aggregation_fails(c, instances, single_group_resample) ==
    /\ c.grouping /\ ~c.ci_samples_from_groups_scores
    /\ \/ single_group_resample
       \/ Cardinality({instances[i].group_id : i \in 1..Len(instances)}) = 1

\* from the update of the global score to the end of process
global_score_of_groups(c, hp1, scored, global_score, groups_global_scores, single) ==
    IF Raised(groups_global_scores.exc)
    THEN Outcome(scored, hp1, groups_global_scores.exc, <<>>)
    ELSE
    LET main == main_score("InstanceMetric")
        order == groups_global_scores.order
        to_score_name == prefix(c) \o main
        value == IF ~c.grouping THEN groups_global_scores.scores["all"].d[main]
                 ELSE nan_mean([j \in 1..Len(order) |->
                          groups_global_scores.scores[order[j]].d[main]])
        written == [k \in {to_score_name, "score", "score_name"} |->
                       IF k = "score_name" THEN Str(to_score_name) ELSE value]
        hp2 == [hp1 EXCEPT ![global_score] = Update(@, written)]
        from_instances == ~c.grouping \/ ~c.ci_samples_from_groups_scores
        to_sample_from ==
            IF from_instances THEN [i \in 1..Len(scored) |-> scored[i].score.instance]
            ELSE [j \in 1..Len(order) |-> groups_global_scores.scores[order[j]].d]
        confidence_interval ==
            score_based_confidence_interval(c, main, to_sample_from, <<main>>, prefix(c)) IN
    IF ~c.ci_scores THEN Outcome(scored, hp2, NoExc, Indices(Len(scored)))
    ELSE IF /\ bootstrapped_names(c, to_sample_from, <<main>>) # {}
            /\ resample_aggregation_fails(c, scored, single)
    THEN Outcome(scored, hp2, Exc("TypeError", "bootstrap statistic"), <<>>)
    ELSE Outcome(scored,
                 [hp2 EXCEPT ![global_score] = Update(@, confidence_interval)],
                 NoExc, Indices(Len(scored)))

InstanceMetric_process(c, instances, hp, single_group_resample) ==
    LET fresh == Len(hp) + 1
        global_score == global_score_at(instances, Len(instances), fresh) IN
    \* compute_instance_scores
    Let([i \in 1..Len(instances) |->
            with_instance_score(instances, i, fresh,
                AccuracyCompute({Reference}, instances[i].prediction))],
        LAMBDA scored :
            Let(score_groups_globally("InstanceMetric", c, scored,
                    <<main_score("InstanceMetric")>>),
                LAMBDA groups_global_scores :
                    global_score_of_groups(c, Append(hp, EmptyDict), scored,
                        global_score, groups_global_scores, single_group_resample)))

(***************************************************************************)
(* Streams and the process actions.                                        *)
(***************************************************************************)
\* what an earlier metric left in the score of an instance it processed
PrevInstanceScore ==
    [k \in {"exact_match", "score", "score_name"} |->
        IF k = "score_name" THEN Str("exact_match") ELSE Num(1, 1)]
PrevGlobalScore ==
    [k \in {"exact_match", "score", "score_name"} |->
        IF k = "score_name" THEN Str("exact_match") ELSE Num(1, 1)]

StreamVariantTypes == {"original", "paraphrase"}

StreamInstances ==
    {[prediction |-> p, group_id |-> g, variant_type |-> v, score |-> sc] :
        p \in Predictions, g \in GroupIds, v \in StreamVariantTypes,
        sc \in {Unscored, [has |-> TRUE, global |-> 1, instance |-> PrevInstanceScore]}}

NResamples == {NoneN, 2}

MetricConfigs ==
    {c \in [kind : Kinds, grouping : BOOLEAN, ci_samples_from_groups_scores : BOOLEAN,
            subgroup_filtering : BOOLEAN, control_comparison : BOOLEAN,
            process_single_instances : BOOLEAN, min_instances : {1, 2},
            n_resamples : NResamples, ci_scores : BOOLEAN,
            aggregating : {"mean", "max"}] :
        /\ ~c.grouping => ~c.ci_samples_from_groups_scores
        /\ c.aggregating = "max" =>
              (c.kind = "InstanceMetric" /\ ~c.control_comparison
               /\ ~c.ci_scores /\ c.n_resamples = NoneN)
        /\ c.kind # "GlobalMetric" => (c.process_single_instances /\ c.min_instances = 1)
        /\ ~c.process_single_instances => c.min_instances = 1
        /\ c.kind = "BulkInstanceMetric" =>
              (~c.grouping /\ ~c.subgroup_filtering /\ ~c.control_comparison
               /\ ~c.ci_scores)}

ConfigsOf(kind) == {c \in MetricConfigs : c.kind = kind}

Init ==
    /\ stream \in UNION {[1..n -> StreamInstances] : n \in 0..MaxLen}
    /\ heap = <<PrevGlobalScore>>
    /\ op = ""
    /\ cfg = DefaultCfg
    /\ exc = NoExc
    /\ ret = <<>>
    /\ yielded = <<>>

Ran(o, name, c) ==
    /\ stream' = o.stream
    /\ heap' = o.heap
    /\ exc' = o.exc
    /\ yielded' = o.yielded
    /\ op' = name
    /\ cfg' = c
    /\ ret' = <<>>

GlobalMetricProcess ==
    /\ op = ""
    /\ \E c \in ConfigsOf("GlobalMetric") :
          \E o \in {GlobalMetric_process(c, stream, heap)} :
              Ran(o, "GlobalMetric.process", c)

BulkInstanceMetricProcess ==
    /\ op = ""
    /\ \E c \in ConfigsOf("BulkInstanceMetric") :
          \E o \in {BulkInstanceMetric_process(c, stream, heap)} :
              Ran(o, "BulkInstanceMetric.process", c)

InstanceMetricProcess ==
    /\ op = ""
    /\ \E c \in ConfigsOf("InstanceMetric"), single_group_resample \in BOOLEAN :
          \E o \in {InstanceMetric_process(c, stream, heap, single_group_resample)} :
              Ran(o, "InstanceMetric.process", c)

Next == GlobalMetricProcess \/ BulkInstanceMetricProcess \/ InstanceMetricProcess

Spec == Init /\ [][Next]_vars

(***************************************************************************)
(* Two metrics applied one after the other to the same stream: the stream  *)
(* that the first process yields is the stream the second one consumes.    *)
(* ret keeps, for every run that returned, its metric and the heap it left. *)
(***************************************************************************)
\* the streams no metric has scored yet
FreshInstances == {x \in StreamInstances : x.score = Unscored}

\* the first metric of the sequence is one without groups; the second is any
PlainConfigs ==
    {c \in MetricConfigs :
        /\ ~c.grouping /\ ~c.subgroup_filtering /\ ~c.control_comparison
        /\ c.process_single_instances /\ c.aggregating = "mean"}

ConfigsAt(position, kind) ==
    IF position = 0 THEN PlainConfigs \cap ConfigsOf(kind) ELSE ConfigsOf(kind)

InitSequence ==
    /\ stream \in UNION {[1..n -> FreshInstances] : n \in 0..MaxLen}
    /\ heap = <<>>
    /\ op = ""
    /\ cfg = DefaultCfg
    /\ exc = NoExc
    /\ ret = <<>>
    /\ yielded = <<>>

Applied(o, name, c) ==
    /\ stream' = o.stream
    /\ heap' = o.heap
    /\ exc' = o.exc
    /\ yielded' = o.yielded
    /\ op' = name
    /\ cfg' = c
    /\ ret' = IF Raised(o.exc) THEN ret ELSE Append(ret, [cfg |-> c, heap |-> o.heap])

\* a metric is applied when the one before it, if any, has returned
CanApply == Len(ret) \in {0, 1} /\ ~Raised(exc)

ApplyGlobalMetric ==
    /\ CanApply
    /\ \E c \in ConfigsAt(Len(ret), "GlobalMetric") :
          \E o \in {GlobalMetric_process(c, stream, heap)} :
              Applied(o, "GlobalMetric.process", c)

ApplyBulkInstanceMetric ==
    /\ CanApply
    /\ \E c \in ConfigsAt(Len(ret), "BulkInstanceMetric") :
          \E o \in {BulkInstanceMetric_process(c, stream, heap)} :
              Applied(o, "BulkInstanceMetric.process", c)

ApplyInstanceMetric ==
    /\ CanApply
    /\ \E c \in ConfigsAt(Len(ret), "InstanceMetric"), single_group_resample \in BOOLEAN :
          \E o \in {InstanceMetric_process(c, stream, heap, single_group_resample)} :
              Applied(o, "InstanceMetric.process", c)

NextSequence == ApplyGlobalMetric \/ ApplyBulkInstanceMetric \/ ApplyInstanceMetric

SpecSequence == InitSequence /\ [][NextSequence]_vars

(***************************************************************************)
(* Direct calls of the aggregation helpers on lists of instance scores     *)
(* (SpecScores).  An instance carries two scores, "accuracy" (the main     *)
(* score) and "f1".                                                        *)
(***************************************************************************)
\* the longest list of instance scores explored
MaxScores == 3

Scores == {Num(0, 1), Num(1, 2), Num(1, 1), NaN, FreshNaN}
OtherScores == {Num(0, 1), Num(1, 1)}

Item(a, b) ==
    [prediction |-> "A", group_id |-> "g1", variant_type |-> "original",
     score |-> [has |-> TRUE, global |-> 1,
                instance |-> [k \in {"accuracy", "f1", "score", "score_name"} |->
                                 CASE k = "accuracy" -> a
                                   [] k = "f1" -> b
                                   [] k = "score" -> a
                                   [] OTHER -> Str("accuracy")]]]

Items == {Item(a, b) : a \in Scores, b \in OtherScores}

\* the `mean` reduction of BulkInstanceMetric.process over the fields of
\* reduction_map, with statistics.mean
mean_reduction(instances, fields, main) ==
    IF instances = <<>> THEN Threw(Exc("StatisticsError", "mean requires at least one data point"))
    ELSE Returned(
        [k \in fields \cup (IF main \in fields THEN {"score", "score_name"} ELSE {}) |->
            CASE k = "score_name" -> Str(main)
              [] k = "score" -> mean(scores_of(instances, main))
              [] OTHER -> mean(scores_of(instances, k))])

InitScores ==
    /\ stream \in UNION {[1..n -> Items] : n \in 0..MaxScores}
    /\ heap = <<EmptyDict>>
    /\ op = ""
    /\ cfg = DefaultCfg
    /\ exc = NoExc
    /\ ret = <<>>
    /\ yielded = <<>>

CallAverageItemScores ==
    /\ op = ""
    /\ op' = "average_item_scores"
    /\ ret' = average_item_scores(stream, "accuracy")
    /\ UNCHANGED <<stream, heap, cfg, exc, yielded>>

CallMeanReduction ==
    /\ op = ""
    /\ \E r \in {mean_reduction(stream, {"accuracy", "f1"}, "accuracy")} :
          /\ op' = "mean_reduction"
          /\ exc' = r.exc
          /\ ret' = r.val
    /\ UNCHANGED <<stream, heap, cfg, yielded>>

\* a metric with score names accuracy (main) and f1, both in ci_scores
CiConfigs == {[DefaultCfg EXCEPT !.n_resamples = n, !.ci_scores = TRUE] : n \in {NoneN, 1, 2}}

CallScoreBasedConfidenceInterval ==
    /\ op = ""
    /\ \E c \in CiConfigs :
          /\ op' = "score_based_confidence_interval"
          /\ cfg' = c
          /\ ret' = score_based_confidence_interval(c, "accuracy",
                        [i \in 1..Len(stream) |-> stream[i].score.instance],
                        <<"accuracy", "f1">>, "")
    /\ UNCHANGED <<stream, heap, exc, yielded>>

\* a resample_from_non_nan that hands the array back as it came
resample_from_non_nan_unchanged(values) == {values}

\* resample_from_non_nan: the arrays that the call can return, one for each
\* draw of the random generator (choice with replacement among the non-NaN
\* entries, one draw for each NaN entry)
resample_from_non_nan(values) ==
    LET error_indices == {i \in 1..Len(values) : IsNan(values[i])}
        n_errors == Cardinality(error_indices)
        non_errors == {values[i] : i \in (1..Len(values)) \ error_indices}
    IN  IF Len(values) > 1 /\ 0 < n_errors /\ n_errors < Len(values)
        THEN {[i \in 1..Len(values) |->
                  IF i \in error_indices THEN draw[i] ELSE values[i]] :
              draw \in [error_indices -> non_errors]}
        ELSE {values}

CallResampleFromNonNan ==
    /\ op = ""
    /\ \E r \in resample_from_non_nan(
                    [i \in 1..Len(stream) |-> stream[i].score.instance["accuracy"]]) :
          /\ op' = "resample_from_non_nan"
          /\ ret' = r
    /\ UNCHANGED <<stream, heap, cfg, exc, yielded>>

\* the global score of a group of a GlobalMetric, made of the scores of item
GroupGlobalScore(item) ==
    [k \in {"accuracy", "score", "score_name"} |->
        IF k = "score_name"
        THEN Str(IF item.score.instance["f1"] = Num(1, 1) THEN "f1" ELSE "accuracy")
        ELSE item.score.instance["accuracy"]]

\* what score_groups_globally hands to the averaging: one dict for each group,
\* NaN for the groups that subgroup filtering emptied
GroupsGlobalScores(items, emptied) ==
    [exc |-> NoExc, order |-> Indices(Len(items)),
     scores |-> [g \in 1..Len(items) |->
                    IF g \in emptied THEN FloatScore(NaN)
                    ELSE DictScore(GroupGlobalScore(items[g]))]]

\* average_groups_global_scores from the groups' scores on, score_name None;
\* ret keeps the groups' scores next to the result
CallAverageOfGroups ==
    /\ op = ""
    /\ \E emptied \in SUBSET (1..Len(stream)) :
          \E r \in {GroupsGlobalScores(stream, emptied)} :
              \E result \in {average_of_groups(r, NoScoreName)} :
                  /\ op' = "average_of_groups"
                  /\ exc' = result.exc
                  /\ ret' = [groups_global_scores |-> r, result |-> result.val]
    /\ UNCHANGED <<stream, heap, cfg, yielded>>

\* performance_drop_rate on the scores of the first n instances as the control
\* subgroup and those of the others as the comparison subgroup; ret keeps the
\* two lists next to the result
CallPerformanceDropRate ==
    /\ op = ""
    /\ \E n \in 0..Len(stream) :
          LET control == [i \in 1..n |-> stream[i].score.instance["accuracy"]]
              comparison == [i \in 1..(Len(stream) - n) |->
                                stream[n + i].score.instance["accuracy"]] IN
          /\ op' = "performance_drop_rate"
          /\ ret' = [control |-> control, comparison |-> comparison,
                     result |-> performance_drop_rate(control, comparison)]
    /\ UNCHANGED <<stream, heap, cfg, exc, yielded>>

NextScores ==
    \/ CallPerformanceDropRate
    \/ CallAverageItemScores
    \/ CallMeanReduction
    \/ CallScoreBasedConfidenceInterval
    \/ CallResampleFromNonNan
    \/ CallAverageOfGroups

SpecScores == InitScores /\ [][NextScores]_vars

(***************************************************************************)
(* Validation of predictions and references (SpecValidate).  A Python      *)
(* value is a record of its class, its content and, for a list or a tuple, *)
(* its elements; a type is a record of its origin and its arguments.       *)
(***************************************************************************)
\* the longest list of references explored
MaxRefs == 2

PyStr == [py |-> "str", v |-> "a", items |-> <<>>]
PyInt == [py |-> "int", v |-> "1", items |-> <<>>]
PyBool == [py |-> "bool", v |-> "True", items |-> <<>>]
PyList(items) == [py |-> "list", v |-> "", items |-> items]
PyTuple(items) == [py |-> "tuple", v |-> "", items |-> items]

TAny == [o |-> "Any", args |-> <<>>]
TClass(name) == [o |-> name, args |-> <<>>]
TList(arg) == [o |-> "list", args |-> <<arg>>]
TTuple(args) == [o |-> "tuple", args |-> args]
TUnion(args) == [o |-> "Union", args |-> args]
\* prediction_type = None
Unset == [o |-> "None", args |-> <<>>]

\* isinstance(object, cls) for the classes str, int, bool, list and tuple
isinstance(object, cls) == object.py = cls \/ (object.py = "bool" /\ cls = "int")

Min(a, b) == IF a < b THEN a ELSE b

RECURSIVE isoftype(_, _)
isoftype(object, type) ==
    IF type = TAny THEN TRUE
    ELSE IF type.o \in {"Union", "list", "tuple"}
    THEN IF type.o = "Union"
         THEN \E j \in 1..Len(type.args) : isoftype(object, type.args[j])
         ELSE IF ~isinstance(object, type.o) THEN FALSE
         ELSE IF type.o = "list"
         THEN \A j \in 1..Len(object.items) : isoftype(object.items[j], type.args[1])
         \* zip(object, type_args) stops at the shorter of the two
         ELSE \A j \in 1..Min(Len(object.items), Len(type.args)) :
                  isoftype(object.items[j], type.args[j])
    ELSE isinstance(object, type.o)

\* get_prediction_type, the type string taken as already parsed
get_prediction_type(c) == IF c.prediction_type = Unset THEN TAny ELSE c.prediction_type

_validate_prediction(c, prediction) ==
    IF ~isoftype(prediction, get_prediction_type(c))
    THEN Exc("ValueError", "Each prediction is expected to be of type")
    ELSE NoExc

_validate_reference(c, reference) ==
    IF ~isoftype(reference, TList(TAny))
    THEN Exc("ValueError", "Expecting a list of references for each prediction")
    ELSE IF c.single_reference_per_prediction /\ Len(reference.items) # 1
    THEN Exc("ValueError", "Expecting a list with a single reference per prediction")
    ELSE IF \E j \in 1..Len(reference.items) :
                ~isoftype(reference.items[j], get_prediction_type(c))
    THEN Exc("ValueError", "Each reference is expected to be of type")
    ELSE NoExc

\* the first exception of a sequence of checks, if any
FirstRaised(checks) ==
    IF \E j \in 1..Len(checks) : Raised(checks[j])
    THEN checks[CHOOSE j \in 1..Len(checks) :
                    Raised(checks[j]) /\ \A k \in 1..(j - 1) : ~Raised(checks[k])]
    ELSE NoExc

\* references and predictions are the lists that process collects
_validate_references_and_prediction(c, references, predictions) ==
    IF Len(references) # Len(predictions)
    THEN Exc("ValueError", "references size doesn't mach predictions size")
    ELSE FirstRaised([j \in 1..Len(references) |-> _validate_reference(c, references[j])]
                     \o [j \in 1..Len(predictions) |-> _validate_prediction(c, predictions[j])])

PyValues ==
    {PyStr, PyInt, PyBool, PyList(<<PyStr>>), PyList(<<PyInt>>),
     PyTuple(<<PyStr, PyStr>>), PyTuple(<<PyStr, PyStr, PyStr>>), PyTuple(<<PyStr, PyInt>>)}

PredictionTypes ==
    {Unset, TAny, TClass("str"), TClass("int"), TList(TClass("str")),
     TTuple(<<TClass("str"), TClass("str")>>), TUnion(<<TClass("str"), TClass("int")>>)}

\* instance["references"]: a list of values, or a value that is not a list
ReferencesValues ==
    {PyList(r) : r \in UNION {[1..n -> PyValues] : n \in 0..MaxRefs}} \cup {PyStr, PyInt}

ValidatedInstances == [prediction : PyValues, references : ReferencesValues]

ValidationConfigs ==
    [prediction_type : PredictionTypes, single_reference_per_prediction : BOOLEAN]

InitValidate ==
    /\ stream \in {<<i>> : i \in ValidatedInstances}
    /\ heap = <<EmptyDict>>
    /\ op = ""
    /\ cfg \in ValidationConfigs
    /\ exc = NoExc
    /\ ret = <<>>
    /\ yielded = <<>>

\* GlobalMetric.process and BulkInstanceMetric.process validate the collected lists
CallValidateReferencesAndPrediction ==
    /\ op = ""
    /\ op' = "_validate_references_and_prediction"
    /\ exc' = _validate_references_and_prediction(cfg,
                  [i \in 1..Len(stream) |-> stream[i].references],
                  [i \in 1..Len(stream) |-> stream[i].prediction])
    /\ UNCHANGED <<stream, heap, cfg, ret, yielded>>

\* compute_instance_scores validates the prediction, then the references
CallValidateInstance ==
    /\ op = ""
    /\ op' = "compute_instance_scores"
    /\ exc' = FirstRaised(<<_validate_prediction(cfg, stream[1].prediction),
                            _validate_reference(cfg, stream[1].references)>>)
    /\ UNCHANGED <<stream, heap, cfg, ret, yielded>>

NextValidate == CallValidateReferencesAndPrediction \/ CallValidateInstance

SpecValidate == InitValidate /\ [][NextValidate]_vars

(***************************************************************************)
(* Seeded computations run one after the other in one process              *)
(* (SpecSeeded).  A generator is its seed and the number of values drawn   *)
(* from it; heap[1] counts the values that the process has drawn so far    *)
(* and ret lists the results of the runs.                                  *)
(***************************************************************************)
\* the largest number of runs in one behaviour
MaxRuns == 2

\* get_seed(): integers, for which hash(seed) & (2^32 - 1) is the seed itself
Seeds == {0, 42}

\* a generator that goes on from where the process' draws have arrived
shared_random_generator(seed, drawn) == [seed |-> seed, pos |-> drawn]

\* a new np.random.default_rng seeded with the configured seed, whatever the
\* process has drawn before
new_random_generator(seed, drawn) == [seed |-> seed, pos |-> 0]

\* the k-th value in 1..n that the generator draws from its position on
Drawn(g, k, n) ==
    ((g.seed + (7 * (g.pos + k)) + (((g.pos + k) * (g.pos + k)) \div 2)) % n) + 1

\* the rows of indices that bootstrap draws: n_resamples rows of n indices
resamples(g, n, n_resamples) ==
    [r \in 1..n_resamples |-> [j \in 1..n |-> Drawn(g, (r - 1) * n + j, n)]]

\* resample_from_non_nan with the draws of generator g
resample_from_non_nan_with(g, values) ==
    LET errors == SelectSeq(Indices(Len(values)), LAMBDA i : IsNan(values[i]))
        non_errors == SelectSeq(values, LAMBDA v : ~IsNan(v)) IN
    IF Len(values) > 1 /\ 0 < Len(errors) /\ Len(errors) < Len(values)
    THEN [i \in 1..Len(values) |->
            IF IsNan(values[i])
            THEN non_errors[Drawn(g, CHOOSE k \in 1..Len(errors) : errors[k] = i,
                                  Len(non_errors))]
            ELSE values[i]]
    ELSE values

\* the bootstrap of score_based_confidence_interval for one score name: the
\* interval is a function of the data and of the statistic of every resample
bootstrap(seed, drawn, instances, score_name, n_resamples) ==
    LET n == Len(instances)
        rows == resamples(new_random_generator(seed, drawn), n, n_resamples)
        scores == [r \in 1..n_resamples |->
                      average_item_scores(At(instances, rows[r]), score_name)]
        distribution ==
            resample_from_non_nan_with(new_random_generator(seed, drawn + n_resamples * n),
                                       scores) IN
    [run |-> "confidence_interval",
     data |-> [i \in 1..n |-> instances[i].score.instance[score_name]],
     distribution |-> distribution]

\* signif_pair_diff with permute=True: the p-value is a function of the paired
\* differences and of the permutations that random_state draws
permutation_test(random_state, instances, n_resamples) ==
    [run |-> "permutation_test",
     data |-> [i \in 1..Len(instances) |->
                  <<instances[i].score.instance["accuracy"],
                    instances[i].score.instance["f1"]>>],
     distribution |->
        IF instances = <<>> THEN <<>>
        ELSE resamples([seed |-> random_state, pos |-> 0], Len(instances), n_resamples)]

SeededConfigs == [seed : Seeds, random_state : Seeds, n_resamples : {2}]

InitSeeded ==
    /\ stream \in UNION {[1..n -> Items] : n \in 0..MaxScores}
    /\ heap = <<0>>
    /\ op = ""
    /\ cfg \in SeededConfigs
    /\ exc = NoExc
    /\ ret = <<>>
    /\ yielded = <<>>

\* score_based_confidence_interval for the score name accuracy, when the
\* interval can be computed and the scores are not all equal
RunConfidenceInterval ==
    /\ Len(ret) < MaxRuns
    /\ _can_compute_confidence_intervals(cfg, Len(stream))
    /\ ~_all_instance_scores_equal(
            [i \in 1..Len(stream) |-> stream[i].score.instance], "accuracy")
    /\ op' = "score_based_confidence_interval"
    /\ ret' = Append(ret, bootstrap(cfg.seed, heap[1], stream, "accuracy", cfg.n_resamples))
    /\ heap' = <<heap[1] + cfg.n_resamples * Len(stream) + cfg.n_resamples>>
    /\ UNCHANGED <<stream, cfg, exc, yielded>>

RunPermutationTest ==
    /\ Len(ret) < MaxRuns
    /\ op' = "signif_pair_diff"
    /\ ret' = Append(ret, permutation_test(cfg.random_state, stream, cfg.n_resamples))
    /\ heap' = <<heap[1] + cfg.n_resamples * Len(stream)>>
    /\ UNCHANGED <<stream, cfg, exc, yielded>>

NextSeeded == RunConfidenceInterval \/ RunPermutationTest

SpecSeeded == InitSeeded /\ [][NextSeeded]_vars

(***************************************************************************)
(* The paired significance test (SpecSignif): signif_pair_diff on a list   *)
(* of aligned samples, one for each model.  The stream holds the samples.  *)
(***************************************************************************)
\* the largest number of samples explored
MaxModels == 3

\* the samples: the scores of one model on the same two observations
SampleVectors ==
    {<<Num(0, 1), Num(0, 1)>>, <<Num(1, 1), Num(1, 1)>>, <<Num(0, 1), Num(1, 1)>>,
     <<Num(1, 1), Num(0, 1)>>, <<Num(1, 2), Num(1, 2)>>, <<Num(0, 1), Num(1, 2)>>}

\* a p-value or an effect size that the model does not compute
Statistic(name) == [t |-> "statistic", n |-> 0, d |-> 1, s |-> name]

\* the pairs of two different indices, in both orders: for i, for j # i
index_pairs_in_both_orders(i, K) ==
    LET all == {q \in (1..K) \X (1..K) : q[1] # q[2] /\ q[1] >= i}
        before(a, b) == a[1] < b[1] \/ (a[1] = b[1] /\ a[2] < b[2])
        place(q) == Cardinality({r \in all : before(r, q)}) + 1 IN
    [x \in 1..Cardinality(all) |-> CHOOSE q \in all : place(q) = x]

\* the pairs (i, j), i < j, in the canonical order: for i, for j > i
RECURSIVE index_pairs(_, _)
index_pairs(i, K) ==
    IF i >= K THEN <<>>
    ELSE [x \in 1..(K - i) |-> <<i, i + x>>] \o index_pairs(i + 1, K)

is_binary(sample) == \A x \in 1..Len(sample) : sample[x] \in {Num(0, 1), Num(1, 1)}

\* the rule with McNemar's test for every pair of binary samples
test_of_any_binary_pair(samples_list, i, j, permute) ==
    IF is_binary(samples_list[i]) /\ is_binary(samples_list[j]) THEN "mcnemar"
    ELSE IF permute THEN "permutation"
    ELSE "t-test"

\* the selection rule
test_of(samples_list, i, j, permute) ==
    IF Len(samples_list) = 2 /\ is_binary(samples_list[i]) /\ is_binary(samples_list[j])
    THEN "mcnemar"
    ELSE IF permute THEN "permutation"
    ELSE "t-test"

\* the full 2x2 contingency table of two binary samples: the count of every
\* combination of values, 0 for a combination that does not occur
contingency_table(x, y) ==
    [a \in {0, 1}, b \in {0, 1} |->
        Cardinality({o \in 1..Len(x) : x[o] = Num(a, 1) /\ y[o] = Num(b, 1)})]

RECURSIVE binomial(_, _)
binomial(n, k) ==
    IF k = 0 \/ k = n THEN 1 ELSE binomial(n - 1, k - 1) + binomial(n - 1, k)

RECURSIVE binomial_tail(_, _)
binomial_tail(n, k) ==
    IF k = 0 THEN 1 ELSE binomial(n, k) + binomial_tail(n, k - 1)

\* the exact two-sided p-value of McNemar's test on the discordant counts
mcnemar_pvalue(table) ==
    LET b == table[0, 1]
        c == table[1, 0]
        least == IF b < c THEN b ELSE c
        twice == 2 * binomial_tail(b + c, least) IN
    IF twice >= 2 ^ (b + c) THEN Num(1, 1) ELSE Rat(twice, 2 ^ (b + c))

\* the p-value without the case of equal samples
pvalue_of_pair_undefined_on_equal(samples_list, i, j, permute) ==
    LET test == test_of(samples_list, i, j, permute) IN
    IF test = "mcnemar" THEN mcnemar_pvalue(contingency_table(samples_list[i], samples_list[j]))
    ELSE IF samples_list[i] = samples_list[j] THEN FreshNaN
    ELSE Statistic(test)

pvalue_of_pair(samples_list, i, j, permute) ==
    LET test == test_of(samples_list, i, j, permute) IN
    IF test = "mcnemar" THEN mcnemar_pvalue(contingency_table(samples_list[i], samples_list[j]))
    ELSE IF samples_list[i] = samples_list[j] THEN Num(1, 1)
    ELSE Statistic(test)

\* the paired standardized mean difference: 0 without any difference
effect_size_of_pair(samples_list, i, j) ==
    IF samples_list[i] = samples_list[j] THEN Num(0, 1) ELSE Statistic("effect_size")

signif_pair_diff(samples_list, permute) ==
    IF Len(samples_list) < 2
    THEN [exc |-> Exc("ValueError", "fewer than 2 samples"),
          pvalues |-> <<>>, effect_sizes |-> <<>>]
    ELSE Let(index_pairs(1, Len(samples_list)),
             LAMBDA pairs :
                [exc |-> NoExc,
                 pvalues |-> [x \in 1..Len(pairs) |->
                     [pair |-> pairs[x],
                      test |-> test_of(samples_list, pairs[x][1], pairs[x][2], permute),
                      value |-> pvalue_of_pair(samples_list, pairs[x][1], pairs[x][2],
                                               permute)]],
                 effect_sizes |-> [x \in 1..Len(pairs) |->
                     [pair |-> pairs[x],
                      value |-> effect_size_of_pair(samples_list, pairs[x][1],
                                                    pairs[x][2])]]])

InitSignif ==
    /\ stream \in UNION {[1..K -> SampleVectors] : K \in 1..MaxModels}
    /\ heap = <<EmptyDict>>
    /\ op = ""
    /\ cfg = [permute |-> FALSE]
    /\ exc = NoExc
    /\ ret = <<>>
    /\ yielded = <<>>

CallSignifPairDiff ==
    /\ op = ""
    /\ \E permute \in BOOLEAN :
          \E r \in {signif_pair_diff(stream, permute)} :
              /\ op' = "signif_pair_diff"
              /\ cfg' = [permute |-> permute]
              /\ exc' = r.exc
              /\ ret' = [pvalues |-> r.pvalues, effect_sizes |-> r.effect_sizes]
    /\ UNCHANGED <<stream, heap, yielded>>

NextSignif == CallSignifPairDiff

SpecSignif == InitSignif /\ [][NextSignif]_vars

(***************************************************************************)
(* BinaryMaxAccuracy.compute (SpecBinary).  A prediction is a float, held  *)
(* here as a whole number of hundredths; the floats of the model have a    *)
(* short mantissa: up to 4.00 every hundredth is a float, from 4.00 on the *)
(* floats lie further apart than 0.02 (as the doubles do from 2^47 on).    *)
(***************************************************************************)
\* x + 0.01 in floats: the nearest float to the sum, x itself where the floats
\* around x lie further apart than 0.02
float_plus_hundredth(x) == IF x >= 400 THEN x ELSE x + 1

FloatPredictions == {0, 50, 100, 400}

BinaryInstances == [prediction : FloatPredictions, reference : {0, 1}]

\* fp.sort(): the positions of the predictions ordered by prediction, then by
\* position
sorted_positions(predictions) ==
    LET n == Len(predictions)
        before(a, b) == \/ predictions[a] < predictions[b]
                        \/ (predictions[a] = predictions[b] /\ a < b)
        place(a) == Cardinality({b \in 1..n : before(b, a)}) + 1 IN
    [x \in 1..n |-> CHOOSE a \in 1..n : place(a) = x]

\* the inner while: the end of the run of equal predictions that starts before i
RECURSIVE run_end(_, _)
run_end(fp, i) ==
    IF i < Len(fp) /\ fp[i + 1].f <= fp[i].f THEN run_end(fp, i + 1) ELSE i

RECURSIVE delta_sum(_, _, _)
delta_sum(fp, from, to) ==
    IF from > to THEN 0 ELSE fp[from].delta + delta_sum(fp, from + 1, to)

\* the outer while, from its state (i, current_acc, best_acc, best_thr); fp[i + 1]
\* is the code's fp[i]
RECURSIVE threshold_scan(_, _, _, _, _, _)
threshold_scan(fp, rightmost_thr, i, current_acc, best_acc, best_thr) ==
    IF ~(i < Len(fp) /\ best_acc < Len(fp))
    THEN [best_acc |-> best_acc, best_thr |-> best_thr]
    ELSE LET next == run_end(fp, i + 1)
             acc == current_acc + delta_sum(fp, i + 1, next) IN
         IF acc > best_acc
         THEN threshold_scan(fp, rightmost_thr, next, acc, acc,
                             IF next < Len(fp) THEN fp[next + 1].f ELSE rightmost_thr)
         ELSE threshold_scan(fp, rightmost_thr, next, acc, best_acc, best_thr)

BinaryMaxAccuracy_compute(references, predictions) ==
    LET order == sorted_positions(predictions)
        fp == [x \in 1..Len(order) |->
                  [f |-> predictions[order[x]],
                   delta |-> IF references[order[x]] = 1 THEN -1 ELSE 1]]
        rightmost_thr == IF fp[Len(fp)].f < 100 THEN 100
                         ELSE float_plus_hundredth(fp[Len(fp)].f)
        current_acc == Cardinality({x \in 1..Len(references) : references[x] = 1})
        best == threshold_scan(fp, rightmost_thr, 0, current_acc, current_acc, fp[1].f) IN
    [max_accuracy_binary |-> Rat(best.best_acc, Len(predictions)),
     best_thr_max_acc |-> best.best_thr]

InitBinary ==
    /\ stream \in UNION {[1..n -> BinaryInstances] : n \in 1..MaxScores}
    /\ heap = <<EmptyDict>>
    /\ op = ""
    /\ cfg = DefaultCfg
    /\ exc = NoExc
    /\ ret = <<>>
    /\ yielded = <<>>

CallBinaryMaxAccuracyCompute ==
    /\ op = ""
    /\ op' = "BinaryMaxAccuracy.compute"
    /\ ret' = BinaryMaxAccuracy_compute([i \in 1..Len(stream) |-> stream[i].reference],
                                        [i \in 1..Len(stream) |-> stream[i].prediction])
    /\ UNCHANGED <<stream, heap, cfg, exc, yielded>>

NextBinary == CallBinaryMaxAccuracyCompute

SpecBinary == InitBinary /\ [][NextBinary]_vars

(***************************************************************************)
(* Claims about the process operations (checked under Spec).               *)
(***************************************************************************)
\* equal as a reader of the scores sees them: two NaN are the same result
SameValue(a, b) == (IsNan(a) /\ IsNan(b)) \/ a = b

RanProcess == op \in {"GlobalMetric.process", "BulkInstanceMetric.process",
                      "InstanceMetric.process"}

Completed == RanProcess /\ ~Raised(exc)

\* the name under which the run writes its global score
RunScoreName ==
    IF cfg.kind = "InstanceMetric" THEN prefix(cfg) \o main_score(cfg.kind)
    ELSE main_score(cfg.kind)

HoldsRunScore(d) ==
    /\ {"score", "score_name"} \subseteq DOMAIN d
    /\ d["score_name"] = Str(RunScoreName)

\* C1: after a process run that yields, all yielded instances point to one and
\* the same global score dict, and that dict holds the global score of the run.
C1_OneSharedGlobalScore ==
    Completed =>
        \A i \in Range(yielded) :
            /\ stream[i].score.global = stream[yielded[1]].score.global
            /\ HoldsRunScore(heap[stream[i].score.global])

ScoreIsNamed(d) ==
    /\ {"score", "score_name"} \subseteq DOMAIN d
    /\ d["score_name"].t = "str"
    /\ d["score_name"].s \in DOMAIN d
    /\ SameValue(d[d["score_name"].s], d["score"])

\* C2: after a process run over a non-empty stream, the instance dict and the
\* global dict of every yielded instance have `score` and `score_name`, the named
\* key exists with the value of `score`, and the instance dict names main_score.
C2_ScoreAndScoreName ==
    (Completed /\ stream # <<>>) =>
        \A i \in Range(yielded) :
            /\ ScoreIsNamed(stream[i].score.instance)
            /\ stream[i].score.instance["score_name"] = Str(main_score(cfg.kind))
            /\ ScoreIsNamed(heap[stream[i].score.global])

\* the singleton preview of instance i raises inside compute
SingletonRaises(i) ==
    /\ op = "GlobalMetric.process"
    /\ cfg.process_single_instances
    /\ Raised(compute_with_main(cfg, <<stream[i]>>).exc)

\* the global score of the whole stream was computed and written to the dict
\* that global_score names at the end of the loop
GlobalStillComputed ==
    LET result == average_groups_global_scores("GlobalMetric", cfg, stream, NoScoreName)
        global_score == stream[Len(stream)].score.global IN
    (~Raised(result.exc) /\ result.val.isdict) =>
        /\ exc.type # "ComputeError"
        /\ \A k \in DOMAIN result.val.d : heap[global_score][k] = result.val.d[k]

PreviewIs(i, v) ==
    /\ stream[i].score.instance["score"] = v
    /\ stream[i].score.instance[main_score("GlobalMetric")] = v
    /\ stream[i].score.instance["score_name"] = Str(main_score("GlobalMetric"))

AllGroupsEmptyAfterFiltering ==
    /\ op = "GlobalMetric.process"
    /\ cfg.subgroup_filtering
    /\ ~cfg.control_comparison
    /\ stream # <<>>
    /\ \A i \in 1..Len(stream) : stream[i].variant_type \notin subgroup_types

\* C6: GlobalMetric.process over a stream whose groups are all empty after
\* subgroup filtering completes without raising and reports NaN as global score.
C6_AllGroupsEmptyGivesNaN ==
    AllGroupsEmptyAfterFiltering =>
        /\ ~Raised(exc)
        /\ LET d == heap[stream[Len(stream)].score.global] IN
           "score" \in DOMAIN d /\ IsNan(d["score"])

\* the dict that global_score names when process ends
RunGlobal == IF stream = <<>> THEN Len(heap) ELSE stream[Len(stream)].score.global

\* the field named by group_by_field has one value over the whole stream
OneGroupValue == \A i, j \in 1..Len(stream) : stream[i].group_id = stream[j].group_id

\* what the same metric computes over the same instances with grouping unset
Ungrouped ==
    score_groups_globally("InstanceMetric",
        [cfg EXCEPT !.grouping = FALSE, !.ci_samples_from_groups_scores = FALSE],
        stream, <<main_score("InstanceMetric")>>)

\* C13: for an InstanceMetric, the global score computed with grouping on a
\* field that has one value over the whole stream is the global score computed
\* with grouping unset, for every aggregating function and every stream.
C13_GroupingIdempotence ==
    (op = "InstanceMetric.process" /\ cfg.grouping /\ OneGroupValue) =>
        IF Raised(Ungrouped.exc) THEN exc = Ungrouped.exc
        ELSE /\ ~Raised(exc)
             /\ RunScoreName \in DOMAIN heap[RunGlobal]
             /\ SameValue(heap[RunGlobal][RunScoreName],
                          Ungrouped.scores["all"].d[main_score("InstanceMetric")])

\* the names that the runs put before _ci_low and _ci_high
IntervalNames ==
    {"score", "accuracy", "corpus_score", "exact_match", "group_mean_accuracy",
     "fixed_group_mean_accuracy", "group_max_accuracy", "fixed_group_max_accuracy",
     "fixed_group_corpus_score"}

IsCiKey(k) == \E name \in IntervalNames : k \in {name \o "_ci_low", name \o "_ci_high"}

\* the run resamples the groups' scores and not the instances
ResamplesGroups == cfg.grouping /\ cfg.ci_samples_from_groups_scores /\ cfg.ci_scores

\* the groups that have a score to resample
ResampledGroups ==
    IF cfg.kind = "InstanceMetric" THEN {stream[i].group_id : i \in 1..Len(stream)}
    ELSE IF cfg.control_comparison THEN {}
    ELSE {stream[i].group_id : i \in {j \in 1..Len(stream) :
              cfg.subgroup_filtering => stream[j].variant_type \in subgroup_types}}

PopulationSize == IF ResamplesGroups THEN Cardinality(ResampledGroups) ELSE Len(stream)

\* C14: when n_resamples is None or at most 1, or the resampling population
\* (the instances, or the groups when the groups are resampled) has at most one
\* element, the run writes no key ending in _ci_low or _ci_high into the global
\* score, and the point estimate is still written.
C14_NoIntervalWithoutResampling ==
    (RanProcess /\ (cfg.n_resamples = NoneN \/ cfg.n_resamples <= 1 \/ PopulationSize <= 1)) =>
        /\ \A g \in 1..Len(heap) : \A k \in DOMAIN heap[g] : ~IsCiKey(k)
        /\ Completed => HoldsRunScore(heap[RunGlobal])

\* the keys of the run's global score that hold a bound of an interval
IntervalKeys == {k \in DOMAIN heap[RunGlobal] : heap[RunGlobal][k].t = "ci"}

\* the key minus its _ci_low or _ci_high ending, for the names the runs use
NameOfIntervalKey(k) ==
    CHOOSE name \in IntervalNames : k \in {name \o "_ci_low", name \o "_ci_high"}

\* C16: when an interval is computed for a score, <name>_ci_low and
\* <name>_ci_high are both written to the global score, <name> being the key
\* that holds the score's point estimate there; score_ci_low and score_ci_high
\* come with the same two values exactly when the score is the main score.
C16_IntervalKeysFollowTheScoreName ==
    Completed =>
        \A k \in IntervalKeys :
            LET name == NameOfIntervalKey(k) IN
            /\ {name \o "_ci_low", name \o "_ci_high"} \subseteq IntervalKeys
            /\ name \in DOMAIN heap[RunGlobal]
            /\ heap[RunGlobal][name \o "_ci_low"] = heap[RunGlobal]["score_ci_low"]
            /\ heap[RunGlobal][name \o "_ci_high"] = heap[RunGlobal]["score_ci_high"]

\* C18: a process operation that returns yields the instances it consumed,
\* each once and in input order, those left out of the aggregation by subgroup
\* filtering or by the control/comparison split included; it leaves their
\* prediction and task data as they were and removes no key that
\* score["instance"] or score["global"] already had.
C18_ProcessKeepsInstances ==
    [][(RanProcess' /\ ~Raised(exc')) =>
          /\ yielded' = Indices(Len(stream))
          /\ Len(stream') = Len(stream)
          /\ \A i \in 1..Len(stream) :
                /\ stream'[i].prediction = stream[i].prediction
                /\ stream'[i].group_id = stream[i].group_id
                /\ stream'[i].variant_type = stream[i].variant_type
                /\ DOMAIN stream[i].score.instance \subseteq DOMAIN stream'[i].score.instance
                /\ stream[i].score.has =>
                      /\ stream'[i].score.global = stream[i].score.global
                      /\ DOMAIN heap[stream[i].score.global] \subseteq
                             DOMAIN heap'[stream'[i].score.global]]_vars

C18_Witness ==
    /\ Completed
    /\ cfg.grouping /\ cfg.subgroup_filtering
    /\ yielded = <<1, 2>>
    /\ stream[1].variant_type = "original"
    /\ stream[2].variant_type = "paraphrase"
    /\ {"exact_match", main_score(cfg.kind)} \subseteq DOMAIN stream[2].score.instance
    /\ {"exact_match", RunScoreName} \subseteq DOMAIN heap[stream[2].score.global]

\* the key of the global score of score name s, for the configuration of the run
KeyOf(s) ==
    CASE ~cfg.grouping -> s
      [] cfg.grouping /\ ~cfg.ci_samples_from_groups_scores ->
            "group_" \o cfg.aggregating \o "_" \o s
      [] OTHER -> "fixed_group_" \o cfg.aggregating \o "_" \o s

\* C26: an InstanceMetric with to_score_names unset stores the global score of
\* score name s under s without grouping, under group_<fn>_s with grouping and
\* ci_samples_from_groups_scores false, under fixed_group_<fn>_s when it is
\* true, and the global score_name is that key for the main score.
C26_GlobalScoreKeys ==
    (Completed /\ cfg.kind = "InstanceMetric") =>
        /\ KeyOf("accuracy") \in DOMAIN heap[RunGlobal]
        /\ heap[RunGlobal][KeyOf("accuracy")].t \in {"num", "nan"}
        /\ heap[RunGlobal]["score_name"] = Str(KeyOf("accuracy"))
        /\ SameValue(heap[RunGlobal]["score"], heap[RunGlobal][KeyOf("accuracy")])

C26_Witness ==
    /\ Completed /\ cfg.kind = "InstanceMetric"
    /\ cfg.grouping /\ cfg.ci_samples_from_groups_scores /\ cfg.aggregating = "mean"
    /\ Len(stream) = 2
    /\ heap[RunGlobal]["fixed_group_mean_accuracy"] = Num(1, 2)
    /\ heap[RunGlobal]["score_name"] = Str("fixed_group_mean_accuracy")

(***************************************************************************)
(* Claims about the grouping engine (checked under SpecGroups).            *)
(***************************************************************************)
RanScoreGroups == op = "score_groups_globally"
RanAverageGroups == op = "average_groups_global_scores"

\* the instances of the stream whose group_by_field holds g (all of them for "all")
InGroup(g) ==
    SelectSeq(Indices(Len(stream)),
              LAMBDA i : g = "all" \/ stream[i].group_id = g)

\* those of a list of instances whose subgroup_column holds one of `types`
OfTypes(list, types) == SelectSeq(list, LAMBDA i : stream[i].variant_type \in types)

\* the instances of group g that subgroup filtering, if configured, keeps
KeptInGroup(g) ==
    IF cfg.subgroup_filtering THEN OfTypes(InGroup(g), subgroup_types) ELSE InGroup(g)

PartitionFails == cfg.grouping /\ \E i \in 1..Len(stream) : stream[i].group_id = Missing

\* C4: with grouping configured and an instance lacking group_by_field,
\* score_groups_globally raises a ValueError that reports the missing field
C4_MissingGroupFieldIsValueError ==
    (RanScoreGroups /\ PartitionFails) => exc = Exc("ValueError", GroupByField)

\* the per-group scores of the main score, in group order
GroupMainScores(r) ==
    [j \in 1..Len(r.order) |-> r.scores[r.order[j]].d[main_score("InstanceMetric")]]

\* C5: average_groups_global_scores with a score_name returns, for any number
\* of groups >= 1, one float: the mean of the non-NaN per-group scores
C5_AverageWithScoreNameIsFloat ==
    (RanAverageGroups /\ cfg.kind = "InstanceMetric" /\ ~Raised(exc)) =>
        LET r == score_groups_globally(cfg.kind, cfg, stream, score_names_of(cfg.kind)) IN
        /\ ~ret.isdict
        /\ SameValue(ret.v, nan_mean(GroupMainScores(r)))

DistinctGroupIds == {stream[i].group_id : i \in 1..Len(stream)}

\* C7: the returned mapping has the one key "all" when grouping is unset, else
\* exactly the distinct values at group_by_field, and every instance is handed
\* to the group named by its own value and to no other
C7_KeysAreTheGroups ==
    (RanScoreGroups /\ ~Raised(exc)) =>
        /\ Range(ret.order) = IF cfg.grouping THEN DistinctGroupIds ELSE {"all"}
        /\ \A g \in Range(ret.order) :
              LET fed == ret.fed[g].list \o ret.fed[g].control \o ret.fed[g].comparison IN
              /\ \A j \in 1..Len(fed) : cfg.grouping => stream[fed[j]].group_id = g
              /\ (~cfg.subgroup_filtering /\ ~cfg.control_comparison) => fed = InGroup(g)

\* the groups that the instances form
GroupsFormed == IF cfg.grouping THEN DistinctGroupIds ELSE {"all"}

\* C29: the mapping that score_groups_globally returns has an entry for every
\* group formed from the instances, whatever the metric kind and the settings
\* of grouping, subgroup_filtering and control_comparison; on a non-empty
\* instance list it is not empty, and average_groups_global_scores does not
\* fail its assertion that there are groups.
C29_EveryGroupHasAnEntry ==
    /\ (RanScoreGroups /\ ~Raised(exc)) =>
          /\ GroupsFormed \subseteq DOMAIN ret.scores
          /\ stream # <<>> => ret.order # <<>>
    /\ (RanAverageGroups /\ stream # <<>>) => exc.type # "AssertionError"

\* the score that aggregating over the instances `list` gives
AggregateOver(list) ==
    IF cfg.kind = "InstanceMetric"
    THEN DictScore([n \in {main_score(cfg.kind)} |->
             aggregating_function(cfg, At(stream, list), n)])
    ELSE IF list = <<>> THEN FloatScore(NaN)
    ELSE DictScore(compute_with_main(cfg, At(stream, list)).d)

\* C8: with subgroup_filtering, a group's score is aggregated over exactly the
\* instances of the group whose subgroup_column value is in subgroup_types, in
\* their order, and an instance lacking subgroup_column gives a ValueError
C8_SubgroupFiltering ==
    (RanScoreGroups /\ cfg.subgroup_filtering /\ ~PartitionFails) =>
        /\ (\E i \in 1..Len(stream) : stream[i].variant_type = Missing)
              => exc = Exc("ValueError", SubgroupColumn)
        /\ ~Raised(exc) =>
              \A g \in DOMAIN ret.fed :
                  IF cfg.control_comparison
                  THEN Range(ret.fed[g].control \o ret.fed[g].comparison)
                           \subseteq Range(OfTypes(InGroup(g), subgroup_types))
                  ELSE /\ ret.fed[g].list = OfTypes(InGroup(g), subgroup_types)
                       /\ g \in Range(ret.order)
                       /\ ret.scores[g] = AggregateOver(OfTypes(InGroup(g), subgroup_types))

C8_Witness ==
    /\ RanScoreGroups /\ cfg.subgroup_filtering /\ ~cfg.control_comparison
    /\ cfg.kind = "InstanceMetric" /\ ~Raised(exc)
    /\ \E g \in Range(ret.order) :
          /\ Len(ret.fed[g].list) = 1
          /\ Len(InGroup(g)) = 2
          /\ ret.scores[g].d["accuracy"] = Num(1, 1)
          /\ \E i \in Range(InGroup(g)) : ~Correct(stream[i])

InstanceScoresOf(list) ==
    [j \in 1..Len(list) |-> stream[list[j]].score.instance[main_score("InstanceMetric")]]

\* C9: with control_comparison on an InstanceMetric, an instance of a group goes
\* to control if its subgroup is a control type, else to comparison if it is a
\* comparison type, else nowhere; the group's score is the calculator applied to
\* the two lists of instance scores, and the aggregating function is not applied
C9_ControlComparison ==
    (RanScoreGroups /\ cfg.kind = "InstanceMetric" /\ cfg.control_comparison
        /\ ~Raised(exc)) =>
        \A g \in Range(ret.order) :
            LET control == OfTypes(KeptInGroup(g), control_subgroup_types)
                comparison == OfTypes(KeptInGroup(g),
                                  comparison_subgroup_types \ control_subgroup_types) IN
            /\ ret.fed[g].control = control
            /\ ret.fed[g].comparison = comparison
            /\ ~ret.fed[g].islist /\ ret.fed[g].list = <<>>
            /\ ret.applied[g] = "control_comparison_score_calculator"
            /\ SameValue(ret.scores[g].d[main_score("InstanceMetric")],
                   control_comparison_score_calculator(InstanceScoresOf(control),
                                                       InstanceScoresOf(comparison)))

C9_Witness ==
    /\ RanScoreGroups /\ cfg.kind = "InstanceMetric" /\ cfg.control_comparison
    /\ ~cfg.subgroup_filtering /\ ~Raised(exc)
    /\ \E g \in Range(ret.order) :
          /\ Len(ret.fed[g].control) = 1
          /\ Len(ret.fed[g].comparison) = 1
          /\ ret.applied[g] = "control_comparison_score_calculator"
          /\ ~IsNan(ret.scores[g].d["accuracy"])

\* C10: score_groups_globally on a BulkInstanceMetric raises for every input
\* and configuration; it never returns a mapping
C10_BulkAlwaysRaises ==
    (RanScoreGroups /\ cfg.kind = "BulkInstanceMetric") => Raised(exc)

(***************************************************************************)
(* Claims about the aggregation helpers (checked under SpecScores).        *)
(***************************************************************************)
AccuracyScores == [i \in 1..Len(stream) |-> stream[i].score.instance["accuracy"]]

ValidPositions == {i \in 1..Len(stream) : ~IsNan(AccuracyScores[i])}
NanPositions == {i \in 1..Len(stream) : IsNan(AccuracyScores[i])}

\* v is the number sum(valid scores) / count(valid scores)
IsMeanOfValid(v) ==
    LET total == RSum(NonNan(AccuracyScores)) IN
    /\ v.t = "num"
    /\ v.n * total.d * Cardinality(ValidPositions) = total.n * v.d

\* C11: with the default mean aggregation, when some instance scores are NaN
\* and at least one is a number, the aggregate is the mean of the non-NaN
\* scores: NaN counts neither in the sum nor in the count.
C11_MeanIgnoresNaN ==
    (op = "average_item_scores" /\ NanPositions # {} /\ ValidPositions # {}) =>
        IsMeanOfValid(ret)

C11_Witness ==
    /\ op = "average_item_scores"
    /\ Cardinality(NanPositions) = 1
    /\ Cardinality(ValidPositions) = 2
    /\ ret = Num(1, 2)
    /\ \E i \in ValidPositions : AccuracyScores[i] = Num(1, 1)

\* C12: with the `mean` reduction of a BulkInstanceMetric, when exactly one
\* instance score of a reduced field is NaN and the rest are numbers, the
\* global score of the field is the mean of the non-NaN scores.
C12_BulkMeanIgnoresNaN ==
    (op = "mean_reduction" /\ Cardinality(NanPositions) = 1 /\ ValidPositions # {}) =>
        IsMeanOfValid(ret["accuracy"])

\* the distinct numbers among the instance scores named `name`
DistinctNumbers(name) ==
    {stream[i].score.instance[name] : i \in 1..Len(stream)} \ {NaN, FreshNaN}

HasInterval(name) == {name \o "_ci_low", name \o "_ci_high"} \subseteq DOMAIN ret
NoInterval(name) == {name \o "_ci_low", name \o "_ci_high"} \cap DOMAIN ret = {}

\* C15: score_based_confidence_interval produces no _ci_low/_ci_high key for a
\* requested score name whose value is the same over all instances, NaN
\* entries aside, still handles the other names, and never skips a score that
\* has at least two distinct values.
C15_EqualScoresAreSkipped ==
    (op = "score_based_confidence_interval"
        /\ _can_compute_confidence_intervals(cfg, Len(stream))) =>
        \A name \in {"accuracy", "f1"} :
            /\ Cardinality(DistinctNumbers(name)) = 1 => NoInterval(name)
            /\ Cardinality(DistinctNumbers(name)) >= 2 => HasInterval(name)

\* C17: on an array of more than one value with at least one NaN and at least
\* one number, resample_from_non_nan returns an array of the same length
\* without NaN, where the numbers stay in place and every replaced entry is
\* one of the original numbers; an array without NaN, with only NaN, or of at
\* most one value comes back unchanged.
C17_ResampleFromNonNan ==
    op = "resample_from_non_nan" =>
        IF Len(stream) > 1 /\ NanPositions # {} /\ ValidPositions # {}
        THEN /\ Len(ret) = Len(stream)
             /\ \A i \in 1..Len(ret) : ~IsNan(ret[i])
             /\ \A i \in ValidPositions : ret[i] = AccuracyScores[i]
             /\ \A i \in NanPositions : \E j \in ValidPositions : ret[i] = AccuracyScores[j]
        ELSE ret = AccuracyScores

C17_Witness ==
    /\ op = "resample_from_non_nan"
    /\ Len(stream) = 3
    /\ Cardinality(NanPositions) = 1
    /\ Cardinality({AccuracyScores[i] : i \in ValidPositions}) = 2
    /\ ret # AccuracyScores

\* the groups of the call whose score is a dict, in the order of the groups
DictGroups ==
    SelectSeq(ret.groups_global_scores.order,
              LAMBDA g : ret.groups_global_scores.scores[g].isdict)

\* the values of field k over the groups that have it
ValuesOf(k) ==
    LET having == SelectSeq(DictGroups,
                      LAMBDA g : k \in DOMAIN ret.groups_global_scores.scores[g].d) IN
    [j \in 1..Len(having) |-> ret.groups_global_scores.scores[having[j]].d[k]]

IsString(v) == v.t = "str"

\* v is the mean of the numbers of vs, NaN when vs has no number
IsNanMeanOf(v, vs) ==
    LET numbers == NonNan(vs)
        total == RSum(numbers) IN
    IF numbers = <<>> THEN IsNan(v)
    ELSE v.t = "num" /\ v.n * total.d * Len(numbers) = total.n * v.d

\* C20: without a score_name and over two or more groups,
\* average_groups_global_scores returns a dict with the fields of the
\* dict-valued groups: a numeric field holds the mean of its values over these
\* groups, NaN values left out; a string field holds the value of the last
\* group that has it; the groups whose score is NaN add nothing.
C20_MergeOfGroupScores ==
    (op = "average_of_groups" /\ Len(stream) >= 2) =>
        /\ ~Raised(exc)
        /\ ret.result.isdict
        /\ DOMAIN ret.result.d =
               UNION {DOMAIN ret.groups_global_scores.scores[g].d : g \in Range(DictGroups)}
        /\ \A k \in DOMAIN ret.result.d :
               LET vs == ValuesOf(k) IN
               IF \A j \in 1..Len(vs) : IsString(vs[j])
               THEN ret.result.d[k] = vs[Len(vs)]
               ELSE IsNanMeanOf(ret.result.d[k], vs)

C20_Witness ==
    /\ op = "average_of_groups"
    /\ Len(stream) = 3
    /\ Len(DictGroups) = 2
    /\ \E j \in 1..2 : IsNan(ValuesOf("accuracy")[j])
    /\ ret.result.d["accuracy"] = Num(1, 2)
    /\ ValuesOf("score_name") = <<Str("f1"), Str("accuracy")>>
    /\ ret.result.d["score_name"] = Str("accuracy")

\* v = 1 - (sum(comparison) / len(comparison)) / (sum(control) / len(control))
IsDropRate(v, control, comparison) ==
    LET sc == RSum(control)
        sm == RSum(comparison)
        whole == sm.d * Len(comparison) * sc.n
        part == sm.n * sc.d * Len(control) IN
    v.t = "num" /\ v.n * whole = v.d * (whole - part)

Declared == IF cfg.prediction_type = Unset THEN TAny ELSE cfg.prediction_type

\* the value belongs to the type: a tuple type fixes the number of elements
RECURSIVE OfType(_, _)
OfType(value, type) ==
    CASE type.o = "Any" -> TRUE
      [] type.o = "Union" -> \E j \in 1..Len(type.args) : OfType(value, type.args[j])
      [] type.o = "list" ->
            /\ value.py = "list"
            /\ \A j \in 1..Len(value.items) : OfType(value.items[j], type.args[1])
      [] type.o = "tuple" ->
            /\ value.py = "tuple"
            /\ Len(value.items) = Len(type.args)
            /\ \A j \in 1..Len(type.args) : OfType(value.items[j], type.args[j])
      [] OTHER -> value.py = type.o \/ (value.py = "bool" /\ type.o = "int")

Validated == op \in {"_validate_references_and_prediction", "compute_instance_scores"}

ShouldBeAccepted ==
    /\ OfType(stream[1].prediction, Declared)
    /\ stream[1].references.py = "list"
    /\ \A j \in 1..Len(stream[1].references.items) :
           OfType(stream[1].references.items[j], Declared)
    /\ cfg.single_reference_per_prediction => Len(stream[1].references.items) = 1

\* C19: validation accepts an instance exactly when its prediction is of the
\* declared prediction type, its references are a list, every reference is of
\* that type and, with single_reference_per_prediction, there is exactly one
\* reference; every other instance gets a ValueError, and without a declared
\* type every prediction and every reference passes.
C19_ValidationAcceptsExactly ==
    Validated =>
        /\ ~Raised(exc) <=> ShouldBeAccepted
        /\ Raised(exc) => exc.type = "ValueError"

RanSignif == op = "signif_pair_diff" /\ Len(stream) >= 2

\* pair a comes before pair b in the lexicographic order
LexBefore(a, b) == a[1] < b[1] \/ (a[1] = b[1] /\ a[2] < b[2])

\* C23: on K >= 2 aligned samples, pvalues and effect_sizes both have
\* K * (K - 1) / 2 entries, the entries at one position are about the same
\* pair (i, j), i < j, and the pairs come in lexicographic order.
C23_PairsInLexicographicOrder ==
    RanSignif =>
        LET K == Len(stream) IN
        /\ ~Raised(exc)
        /\ 2 * Len(ret.pvalues) = K * (K - 1)
        /\ Len(ret.effect_sizes) = Len(ret.pvalues)
        /\ \A x \in 1..Len(ret.pvalues) :
              /\ ret.pvalues[x].pair = ret.effect_sizes[x].pair
              /\ ret.pvalues[x].pair[1] \in 1..K
              /\ ret.pvalues[x].pair[2] \in 1..K
              /\ ret.pvalues[x].pair[1] < ret.pvalues[x].pair[2]
        /\ \A x, y \in 1..Len(ret.pvalues) :
              x < y => LexBefore(ret.pvalues[x].pair, ret.pvalues[y].pair)

C23_Witness ==
    /\ RanSignif
    /\ Len(stream) = 3
    /\ [x \in 1..3 |-> ret.pvalues[x].pair] = <<(<<1, 2>>), (<<1, 3>>), (<<2, 3>>)>>

IsBinary(sample) == \A x \in 1..Len(sample) : sample[x].n \in {0, 1} /\ sample[x].d = 1

\* C24: McNemar's test is used exactly when there are two samples and both
\* hold only 0 and 1; with more than two samples, or with a sample that holds
\* another value, the test is the paired t-test, or the permutation test when
\* permute is set.
C24_TestSelection ==
    RanSignif =>
        \A x \in 1..Len(ret.pvalues) :
            LET pair == ret.pvalues[x].pair IN
            IF Len(stream) = 2 /\ IsBinary(stream[pair[1]]) /\ IsBinary(stream[pair[2]])
            THEN ret.pvalues[x].test = "mcnemar"
            ELSE ret.pvalues[x].test = (IF cfg.permute THEN "permutation" ELSE "t-test")

C24_Witness ==
    /\ RanSignif
    /\ Len(stream) = 3
    /\ \A x \in 1..3 : IsBinary(stream[x])
    /\ cfg.permute
    /\ ret.pvalues[1].test = "permutation"

IsConstant(sample) == \A x \in 1..Len(sample) : sample[x] = sample[1]

\* C25: on two samples that are constant and equal the function does not
\* raise and gives the p-value 1.0 and the effect size 0.0; on two binary
\* samples of which one or both are constant it gives a p-value, from the
\* 2x2 table with 0 in the cells that do not occur.
C25_ConstantSamples ==
    (RanSignif /\ Len(stream) = 2) =>
        /\ (IsConstant(stream[1]) /\ stream[1] = stream[2]) =>
              /\ ~Raised(exc)
              /\ ret.pvalues[1].value = Num(1, 1)
              /\ ret.effect_sizes[1].value = Num(0, 1)
        /\ (IsBinary(stream[1]) /\ IsBinary(stream[2])
                /\ (IsConstant(stream[1]) \/ IsConstant(stream[2]))) =>
              /\ ~Raised(exc)
              /\ ret.pvalues[1].value.t = "num"

C25_Witness ==
    /\ RanSignif
    /\ stream = <<(<<Num(1, 2), Num(1, 2)>>), (<<Num(1, 2), Num(1, 2)>>)>>
    /\ ret.pvalues[1].test = "t-test"
    /\ ret.pvalues[1].value = Num(1, 1)

(***************************************************************************)
(* Claims about BinaryMaxAccuracy (checked under SpecBinary).              *)
(***************************************************************************)
\* the number of instances on which (prediction >= t) agrees with (reference = 1)
Agreeing(t) ==
    Cardinality({i \in 1..Len(stream) :
                    (stream[i].prediction >= t) <=> (stream[i].reference = 1)})

\* one threshold for each way of splitting the predictions: every prediction,
\* and a value above each
Thresholds == FloatPredictions \cup {x + 1 : x \in FloatPredictions}

BestAgreeing == CHOOSE m \in 0..Len(stream) :
    /\ \E t \in Thresholds : Agreeing(t) = m
    /\ \A t \in Thresholds : Agreeing(t) <= m

\* C27: on a non-empty list of numeric predictions with 0/1 references,
\* max_accuracy_binary is the largest fraction, over all thresholds t, of the
\* instances on which (prediction >= t) agrees with (reference = 1), and
\* best_thr_max_acc is a threshold that reaches this fraction, also when some
\* predictions are equal.
C27_BestThreshold ==
    op = "BinaryMaxAccuracy.compute" =>
        /\ ret.max_accuracy_binary = Rat(BestAgreeing, Len(stream))
        /\ Agreeing(ret.best_thr_max_acc) = BestAgreeing


(***************************************************************************)
(* Claims about two metrics applied in sequence (checked under             *)
(* SpecSequence).                                                          *)
(***************************************************************************)
\* both metrics have returned
BothReturned == Len(ret) = 2 /\ ~Raised(exc)

\* the global dict that the instances share after the runs
SharedGlobal == heap[stream[1].score.global]

\* the keys that hold the bounds of an interval
IntervalKeyNames ==
    {"score_ci_low", "score_ci_high"}
    \cup {name \o "_ci_low" : name \in IntervalNames}
    \cup {name \o "_ci_high" : name \in IntervalNames}

\* C28: after metrics have been applied one after another to the same stream,
\* score_ci_low and score_ci_high, when present in the shared global score, are
\* the bounds of the score that the global score_name names.
C28_MainIntervalIsOfTheNamedScore ==
    (BothReturned /\ stream # <<>>) =>
        \A side \in {0, 1} :
            LET k == IF side = 0 THEN "score_ci_low" ELSE "score_ci_high" IN
            k \in DOMAIN SharedGlobal =>
                SharedGlobal[k] = CiBound(SharedGlobal["score_name"].s, side)

\* the global dict as the first metric left it
FirstGlobal == ret[1].heap[stream[1].score.global]

\* the keys that the second metric writes: its score, score and score_name, and
\* the bounds of the intervals
WrittenBySecond == {RunScoreName, "score", "score_name"} \cup IntervalKeyNames

\* C30: when two metrics are applied one after the other to the same stream,
\* the second run updates the global dict that the first one attached to the
\* instances: every key the first metric wrote, other than score, score_name
\* and the keys the second metric writes too, is still there with its value,
\* and score and score_name are those of the second metric.
C30_SecondRunReusesTheGlobal ==
    (BothReturned /\ stream # <<>>) =>
        /\ \A i \in 1..Len(stream) : stream[i].score.global = stream[1].score.global
        /\ stream[1].score.global \in 1..Len(ret[1].heap)
        /\ \A k \in DOMAIN FirstGlobal \ WrittenBySecond :
              k \in DOMAIN SharedGlobal /\ SharedGlobal[k] = FirstGlobal[k]
        /\ HoldsRunScore(SharedGlobal)
        /\ RunScoreName \in DOMAIN SharedGlobal
        /\ SharedGlobal["score"] = SharedGlobal[RunScoreName]
====
